---- MODULE Spec2Model ----
(***************************************************************************)
(* Model of the safe wrapper around libimobiledevice's mobilesync client   *)
(* (src/services/mobile_sync.rs) and of the device-event callback bridge   *)
(* (src/callback.rs).                                                      *)
(*                                                                         *)
(* The native library is an external collaborator: every native call is a  *)
(* nondeterministic choice of the status it returns and of what it writes  *)
(* into its output parameters.  A native call on a session that was        *)
(* already freed, and a dereference of a null pointer, are undefined       *)
(* behaviour: the model offers both the crash and the "keeps running"      *)
(* outcomes.                                                               *)
(***************************************************************************)
EXTENDS Integers, Sequences, FiniteSets, TLC

\* ---------------------------------------------------------------- bounds
MaxClients == 2
MaxPtrs == 2
MaxStrLen == 1
MaxFlag == 1
MaxAnchors == 1
MaxRegs == 2

\* ------------------------------------------------------------ value sets
NULL == 0
Ptrs == 1..MaxPtrs
ClientIds == 1..MaxClients
RegIds == 1..MaxRegs

\* Bytes of a Rust String: 0 is the NUL byte, 1 is any other byte.
Bytes == {0, 1}
Strings == UNION {[1..n -> Bytes] : n \in 0..MaxStrLen}
NulFree(s) == \A i \in 1..Len(s) : s[i] # 0

\* NUL-terminated buffers the native layer can hand out.
NativeCStrings == {Append(s, 0) : s \in {t \in Strings : NulFree(t)}}

\* Status codes the native mobilesync functions return.
NativeStatus == {0, -1, -3}
FlagValues == (0 - MaxFlag)..MaxFlag
PlistTypes == {"Array", "Dictionary", "String", "Integer"}
MobileSyncTypes == {"Fast", "Slow", "Reset"}

VARIABLES clients, allocated, freeCalls, trace, ret, alive, registrations, delivery

vars == <<clients, allocated, freeCalls, trace, ret, alive, registrations, delivery>>
clientVars == <<clients, allocated, freeCalls, trace, ret>>
callbackVars == <<registrations, delivery>>

\* --------------------------------------------------------- pure helpers

\* impl From<mobilesync_error_t> for MobileSyncError
MobileSyncErrorFrom(code) ==
  CASE code = 0 -> "Success"
    [] code = -1 -> "InvalidArg"
    [] code = -3 -> "MuxError"
    [] OTHER -> "UnknownError"

\* CString::new(s): fails when s holds an interior NUL, else appends the terminator.
CStringNew(s) ==
  IF NulFree(s) THEN [ok |-> TRUE, bytes |-> Append(s, 0)]
  ELSE [ok |-> FALSE, bytes |-> <<>>]

RECURSIVE UpToNul(_)
UpToNul(buf) ==
  IF buf = <<>> \/ Head(buf) = 0 THEN <<>>
  ELSE <<Head(buf)>> \o UpToNul(Tail(buf))

\* CStr::from_ptr(p).to_string_lossy().into_owned(): the bytes before the first NUL.
CStrFromPtr(buf) == UpToNul(buf)

\* impl From<MobileSyncType> for c_uint
MobileSyncTypeInto(type_) ==
  CASE type_ = "Fast" -> 0
    [] type_ = "Slow" -> 1
    [] type_ = "Reset" -> 2

\* ------------------------------------------------------- result records
NoClient == [st |-> "none", pointer |-> NULL]
Result(op, kind, err) ==
  [op |-> op, kind |-> kind, err |-> err, arg |-> <<>>, desc |-> <<>>, has_more |-> FALSE]
Ok(op) == Result(op, "Ok", "Success")
Err(op, e) == Result(op, "Err", e)
Panic(op) == Result(op, "Panic", "-")
Crash(op) == Result(op, "Crash", "-")

\* if result != MobileSyncError::Success { return Err(result); } Ok(())
UnitResult(op, status) ==
  IF MobileSyncErrorFrom(status) # "Success" THEN Err(op, MobileSyncErrorFrom(status))
  ELSE Ok(op)

\* ---------------------------------------------------- the native layer
Dangling(p) == freeCalls[p] > 0

\* What a native call on session p can do: return any status; on a freed
\* session it may also never return (the process dies).
NativeReturns(p) ==
  {[returned |-> TRUE, status |-> s] : s \in NativeStatus}
    \cup (IF Dangling(p) THEN {[returned |-> FALSE, status |-> 0]} ELSE {})

Call(fn, p, o, args) ==
  [fn |-> fn, ptr |-> p, dangling |-> Dangling(p), returned |-> o.returned,
   status |-> o.status, args |-> args]

FreeSlots == {c \in ClientIds : clients[c].st = "none"}
FreshPtrs == Ptrs \ allocated
Live(c) == alive /\ clients[c].st = "live"

Init ==
  /\ clients = [c \in ClientIds |-> NoClient]
  /\ allocated = {}
  /\ freeCalls = [p \in {NULL} \cup Ptrs |-> 0]
  /\ trace = <<>>
  /\ ret = Result("none", "Init", "-")
  /\ alive = TRUE
  /\ registrations = [r \in RegIds |-> [st |-> "none", data |-> 0, filter |-> {}]]
  /\ delivery = [reg |-> 0, eventNull |-> FALSE, ctxNull |-> FALSE, event |-> [event |-> 0, udid |-> <<0>>],
                 derefNull |-> FALSE, outcome |-> "none", handlerLog |-> <<>>]


\* ------------------------------------------------------- construction

\* What mobilesync_client_new / mobilesync_client_start_service can do: fail
\* with a status and leave the out-pointer null, or succeed and write a fresh
\* session pointer.
ConstructorOutcomes ==
  {[status |-> s, pointer |-> NULL] : s \in NativeStatus \ {0}}
    \cup {[status |-> 0, pointer |-> p] : p \in {q \in FreshPtrs : \A q2 \in FreshPtrs : q <= q2}}

\* A constructor that wraps the out-pointer without looking at the status.
ConstructResult_Unchecked(status, pointer) ==
  [kind |-> "Ok", err |-> "Success", made |-> TRUE, pointer |-> pointer]

\* if result != Success { return Err(result); } Ok(MobileSyncClient { pointer, .. })
ConstructResult(status, pointer) ==
  IF MobileSyncErrorFrom(status) # "Success"
  THEN [kind |-> "Err", err |-> MobileSyncErrorFrom(status), made |-> FALSE, pointer |-> NULL]
  ELSE [kind |-> "Ok", err |-> "Success", made |-> TRUE, pointer |-> pointer]

Construct(op, fn, arg) ==
  \E o \in ConstructorOutcomes :
    LET r == ConstructResult(o.status, o.pointer)
        slot == CHOOSE c \in FreeSlots : \A d \in FreeSlots : c <= d
    IN /\ r.made => FreeSlots # {}
       /\ trace' = <<[fn |-> fn, ptr |-> o.pointer, dangling |-> FALSE, returned |-> TRUE,
                      status |-> o.status, args |-> arg]>>
       /\ allocated' = allocated \cup ({o.pointer} \ {NULL})
       /\ clients' = IF r.made
                     THEN [clients EXCEPT ![slot] = [st |-> "live", pointer |-> r.pointer]]
                     ELSE clients
       /\ ret' = [Result(op, r.kind, r.err) EXCEPT !.arg = arg]
       /\ UNCHANGED <<freeCalls, alive, callbackVars>>

\* MobileSyncClient::new(device, descriptor)
New ==
  /\ alive
  /\ Construct("new", "mobilesync_client_new", <<>>)

\* MobileSyncClient::start_service(device, label)
StartService ==
  /\ alive
  /\ \E label \in Strings :
       LET label_c_string == CStringNew(label) IN
       IF ~label_c_string.ok
       THEN /\ ret' = [Panic("start_service") EXCEPT !.arg = label]
            /\ trace' = <<>>
            /\ UNCHANGED <<clients, allocated, freeCalls, alive, callbackVars>>
       ELSE Construct("start_service", "mobilesync_client_start_service", label_c_string.bytes)

\* #[derive(Clone)]: the new value carries a copy of the same session pointer.
Clone(c) ==
  /\ Live(c)
  /\ FreeSlots # {}
  /\ LET slot == CHOOSE d \in FreeSlots : \A e \in FreeSlots : d <= e
     IN clients' = [clients EXCEPT ![slot] = [st |-> "live", pointer |-> clients[c].pointer]]
  /\ trace' = <<>>
  /\ ret' = Ok("clone")
  /\ UNCHANGED <<allocated, freeCalls, alive, callbackVars>>

\* impl Drop: mobilesync_client_free(self.pointer), whatever the pointer's state.
Drop(c) ==
  /\ Live(c)
  /\ LET p == clients[c].pointer IN
     \E o \in NativeReturns(p) :
       /\ trace' = <<Call("mobilesync_client_free", p, o, <<>>)>>
       /\ freeCalls' = [freeCalls EXCEPT ![p] = @ + 1]
       /\ clients' = [clients EXCEPT ![c].st = "dropped"]
       /\ ret' = IF o.returned THEN Ok("drop") ELSE Crash("drop")
       /\ alive' = o.returned
  /\ UNCHANGED <<allocated, callbackVars>>

\* ---------------------------------------------------------- operations

\* One native call on self.pointer, its status translated and returned.
UnitOp(c, op, fn, args) ==
  /\ Live(c)
  /\ LET p == clients[c].pointer IN
     \E o \in NativeReturns(p) :
       /\ trace' = <<Call(fn, p, o, args)>>
       /\ ret' = IF o.returned THEN UnitResult(op, o.status) ELSE Crash(op)
       /\ alive' = o.returned
  /\ UNCHANGED <<clients, allocated, freeCalls, callbackVars>>

Receive(c) == UnitOp(c, "receive", "mobilesync_receive", <<>>)

Send(c) == UnitOp(c, "send", "mobilesync_send", <<>>)

Finish(c) == UnitOp(c, "finish", "mobilesync_finish", <<>>)

ClearAllRecordsOnDevice(c) ==
  UnitOp(c, "clear_all_records_on_device", "mobilesync_clear_all_records_on_device", <<>>)

AcknowledgeChangesFromDevice(c) ==
  UnitOp(c, "acknowledge_changes_from_device", "mobilesync_acknowledge_changes_from_device", <<>>)

ReadyToSendChangesFromComputer(c) ==
  UnitOp(c, "ready_to_send_changes_from_computer",
         "mobilesync_ready_to_send_changes_from_computer", <<>>)

\* send_changes(entities, is_last, actions): a missing actions plist is passed as null.
SendChanges(c) ==
  \E is_last \in BOOLEAN, actions \in {"None", "Some"} :
    UnitOp(c, "send_changes", "mobilesync_send_changes",
           <<IF is_last THEN 1 ELSE 0, IF actions = "None" THEN "null" ELSE "plist">>)

\* cancel(reason)
Cancel(c) ==
  /\ Live(c)
  /\ \E reason \in Strings :
       LET reason_c_string == CStringNew(reason) IN
       IF ~reason_c_string.ok
       THEN /\ ret' = [Panic("cancel") EXCEPT !.arg = reason]
            /\ trace' = <<>>
            /\ UNCHANGED <<clients, allocated, freeCalls, alive, callbackVars>>
       ELSE UnitOp(c, "cancel", "mobilesync_cancel", reason_c_string.bytes)

\* A shape check that also lets dictionaries through.
RemapRejects_Containers(plist_type) == plist_type \notin {"Array", "Dictionary"}

\* if mapping.plist_type != PlistType::Array { return Err(InvalidArg); }
RemapRejects(plist_type) == plist_type # "Array"

\* remap_identifiers(mapping)
RemapIdentifiers(c) ==
  /\ Live(c)
  /\ \E plist_type \in PlistTypes :
       IF RemapRejects(plist_type)
       THEN /\ ret' = [Err("remap_identifiers", "InvalidArg") EXCEPT !.arg = plist_type]
            /\ trace' = <<>>
            /\ UNCHANGED <<clients, allocated, freeCalls, alive, callbackVars>>
       ELSE LET p == clients[c].pointer IN
            \E o \in NativeReturns(p) :
              /\ trace' = <<Call("mobilesync_remap_identifiers", p, o, plist_type)>>
              /\ ret' = [(IF o.returned THEN UnitResult("remap_identifiers", o.status)
                                        ELSE Crash("remap_identifiers"))
                           EXCEPT !.arg = plist_type]
              /\ alive' = o.returned
              /\ UNCHANGED <<clients, allocated, freeCalls, callbackVars>>

\* ---------------------------------------------------------- start sync

\* What mobilesync_start can leave in its error_description out-parameter:
\* nothing (the null the wrapper initialised it with) or a C string.
ErrorDescriptions ==
  {[null |-> TRUE, buf |-> <<>>]} \cup {[null |-> FALSE, buf |-> b] : b \in NativeCStrings}

\* if result != Success { return Err((CStr::from_ptr(error_description)..., result)); } Ok(())
\* CStr::from_ptr on a null pointer is undefined: the process faults, or some
\* NUL-free run of bytes is read from wherever the pointer leads.
StartResults(status, error_description) ==
  IF MobileSyncErrorFrom(status) # "Success"
  THEN IF error_description.null
       THEN {Crash("start")}
              \cup {[Err("start", MobileSyncErrorFrom(status)) EXCEPT !.desc = g] :
                      g \in {t \in Strings : NulFree(t)}}
       ELSE {[Err("start", MobileSyncErrorFrom(status))
                EXCEPT !.desc = CStrFromPtr(error_description.buf)]}
  ELSE {Ok("start")}

\* anchor_ptrs[0] for a list of 0..MaxAnchors anchors: the first anchor, or the
\* null pushed after an empty list.
AnchorPtrs0 == {IF anchors = 0 THEN "null" ELSE "anchor" : anchors \in 0..MaxAnchors}

\* start(data_class, anchors, computer_data_class_version, sync_type)
Start(c) ==
  /\ Live(c)
  /\ \E data_class \in Strings, anchor0 \in AnchorPtrs0, sync_type \in MobileSyncTypes :
       LET data_class_c_string == CStringNew(data_class)
           p == clients[c].pointer
       IN
       IF ~data_class_c_string.ok
       THEN /\ ret' = [Panic("start") EXCEPT !.arg = data_class]
            /\ trace' = <<>>
            /\ UNCHANGED <<clients, allocated, freeCalls, alive, callbackVars>>
       ELSE \E o \in NativeReturns(p), error_description \in ErrorDescriptions :
              /\ trace' = <<Call("mobilesync_start", p, o,
                                 [data_class |-> data_class_c_string.bytes,
                                  anchors |-> anchor0,
                                  sync_type |-> MobileSyncTypeInto(sync_type),
                                  error_description |-> error_description])>>
              /\ IF o.returned
                 THEN \E r \in StartResults(o.status, error_description) :
                        /\ ret' = r
                        /\ alive' = (r.kind # "Crash")
                 ELSE /\ ret' = Crash("start")
                      /\ alive' = FALSE
              /\ UNCHANGED <<clients, allocated, freeCalls, callbackVars>>

\* ------------------------------------------------------ receive changes

\* A conversion that takes only positive flags as true.
HasMoreChanges_Positive(has_more_changes) == has_more_changes > 0

\* has_more_changes != 0
HasMoreChanges(has_more_changes) == has_more_changes # 0

\* The tail of receive_changes, from the native call's return on.
ReceiveChangesResult(op, o, has_more_changes) ==
  IF ~o.returned THEN Crash(op)
  ELSE IF MobileSyncErrorFrom(o.status) # "Success" THEN Err(op, MobileSyncErrorFrom(o.status))
  ELSE [Ok(op) EXCEPT !.has_more = HasMoreChanges(has_more_changes)]

\* receive_changes()
ReceiveChanges(c) ==
  /\ Live(c)
  /\ LET p == clients[c].pointer IN
     \E o \in NativeReturns(p), flag \in FlagValues :
       /\ trace' = <<Call("mobilesync_receive_changes", p, o, flag)>>
       /\ ret' = ReceiveChangesResult("receive_changes", o, flag)
       /\ alive' = o.returned
  /\ UNCHANGED <<clients, allocated, freeCalls, callbackVars>>

\* A body that goes on to receive_changes whatever the request returned.
RequestRecords_NoCheck(c, op, fn) ==
  /\ Live(c)
  /\ LET p == clients[c].pointer IN
     \E o1 \in NativeReturns(p) :
       IF ~o1.returned
       THEN /\ trace' = <<Call(fn, p, o1, <<>>)>>
            /\ ret' = Crash(op)
            /\ alive' = FALSE
       ELSE \E o2 \in NativeReturns(p), flag \in FlagValues :
              /\ trace' = <<Call(fn, p, o1, <<>>),
                            Call("mobilesync_receive_changes", p, o2, flag)>>
              /\ ret' = ReceiveChangesResult(op, o2, flag)
              /\ alive' = o2.returned
  /\ UNCHANGED <<clients, allocated, freeCalls, callbackVars>>

\* The body shared by get_all_records_from_device and get_changes_from_device:
\* the request, an early return on its error, then self.receive_changes().
RequestRecords(c, op, fn) ==
  /\ Live(c)
  /\ LET p == clients[c].pointer IN
     \E o1 \in NativeReturns(p) :
       IF ~o1.returned
       THEN /\ trace' = <<Call(fn, p, o1, <<>>)>>
            /\ ret' = Crash(op)
            /\ alive' = FALSE
       ELSE IF MobileSyncErrorFrom(o1.status) # "Success"
       THEN /\ trace' = <<Call(fn, p, o1, <<>>)>>
            /\ ret' = Err(op, MobileSyncErrorFrom(o1.status))
            /\ alive' = alive
       ELSE \E o2 \in NativeReturns(p), flag \in FlagValues :
              /\ trace' = <<Call(fn, p, o1, <<>>),
                            Call("mobilesync_receive_changes", p, o2, flag)>>
              /\ ret' = ReceiveChangesResult(op, o2, flag)
              /\ alive' = o2.returned
  /\ UNCHANGED <<clients, allocated, freeCalls, callbackVars>>

GetAllRecordsFromDevice(c) ==
  RequestRecords(c, "get_all_records_from_device", "mobilesync_get_all_records_from_device")

GetChangesFromDevice(c) ==
  RequestRecords(c, "get_changes_from_device", "mobilesync_get_changes_from_device")

\* ------------------------------------------------------ callback bridge

UdidBytes == {1, 2}
\* The udid field of idevice_event_t: a NUL-terminated C string.
NativeUdids == {<<b, 0>> : b \in UdidBytes}
\* idevice_event_t: event is 1 (add), 2 (remove) or 3 (paired).
NativeEvents == [event : {1, 2, 3}, udid : NativeUdids]
NoEvent == [event |-> 0, udid |-> <<0>>]
DataValues == {1, 2}
\* Option<String>: None is the empty set, Some(s) is {s}.
Filters == {{}} \cup {{<<b>>} : b \in UdidBytes} \cup {{<<1, 2>>}}

\* impl From<idevice_event_t> for IDeviceEvent
IDeviceEventFrom(native) ==
  [kind |-> CASE native.event = 1 -> "Add"
              [] native.event = 2 -> "Remove"
              [] native.event = 3 -> "Paired"
              [] OTHER -> "Unknown",
   udid |-> CStrFromPtr(native.udid)]

DecodedEvents == {IDeviceEventFrom(n) : n \in NativeEvents}

\* IDeviceEventCallback::new(function, _data, _udid_filter)
IDeviceEventCallbackNew(r) ==
  /\ alive
  /\ registrations[r].st = "none"
  /\ \E data \in DataValues, filter \in Filters :
       registrations' = [registrations EXCEPT ![r] =
                           [st |-> "live", data |-> data, filter |-> filter]]
  /\ UNCHANGED <<clientVars, alive, delivery>>

\* IDeviceEventCallback::call: the handler runs once with the event and the stored data.
IDeviceEventCallbackCall(callback, event) == <<[event |-> event, data |-> callback.data]>>

\* A filter whose comparison is inverted.
FilterRejects_Inverted(filter, event_udid) == \E filter_udid \in filter : event_udid = filter_udid

\* if let Some(ref filter_udid) = callback._udid_filter { if event_udid != *filter_udid { return; } }
FilterRejects(filter, event_udid) == \E filter_udid \in filter : event_udid # filter_udid

\* The handler invocations of one run of idevice_event_callback past its two dereferences.
Forward(callback, event) ==
  IF FilterRejects(callback.filter, event.udid) THEN <<>>
  ELSE IDeviceEventCallbackCall(callback, event)

\* Every way one call of idevice_event_callback(event, user_data) can go.
\* eventNull: the event pointer is null; r = 0: user_data is null.  Neither is
\* checked before `*event` and `&mut *user_data`, so a null there is undefined
\* behaviour: a fault, or a run on whatever the null address holds.
CallbackRuns(eventNull, native, r) ==
  LET base == [reg |-> r, eventNull |-> eventNull, ctxNull |-> (r = 0),
               event |-> IF eventNull THEN NoEvent ELSE native,
               derefNull |-> (eventNull \/ r = 0), outcome |-> "returned",
               handlerLog |-> <<>>]
      events == IF eventNull THEN DecodedEvents ELSE {IDeviceEventFrom(native)}
  IN (IF eventNull \/ r = 0 THEN {[base EXCEPT !.outcome = "crashed"]} ELSE {})
       \cup (IF r = 0
             THEN {[base EXCEPT !.outcome = "undefined"]}
             ELSE {[base EXCEPT !.handlerLog = Forward(registrations[r], e)] : e \in events})

\* idevice_event_callback(event, user_data), as the native layer invokes it
IdeviceEventCallback ==
  /\ alive
  /\ \E eventNull \in BOOLEAN, native \in NativeEvents,
        r \in {0} \cup {q \in RegIds : registrations[q].st = "live"} :
       \E run \in CallbackRuns(eventNull, native, r) :
         /\ delivery' = run
         /\ alive' = (run.outcome # "crashed")
  /\ UNCHANGED <<clientVars, registrations>>

\* ------------------------------------------------------- specifications

Next ==
  \/ New
  \/ StartService
  \/ \E c \in ClientIds : Clone(c)
  \/ \E c \in ClientIds : Drop(c)
  \/ \E c \in ClientIds : Receive(c)
  \/ \E c \in ClientIds : Send(c)
  \/ \E c \in ClientIds : Start(c)
  \/ \E c \in ClientIds : Cancel(c)
  \/ \E c \in ClientIds : Finish(c)
  \/ \E c \in ClientIds : GetAllRecordsFromDevice(c)
  \/ \E c \in ClientIds : GetChangesFromDevice(c)
  \/ \E c \in ClientIds : ClearAllRecordsOnDevice(c)
  \/ \E c \in ClientIds : ReceiveChanges(c)
  \/ \E c \in ClientIds : AcknowledgeChangesFromDevice(c)
  \/ \E c \in ClientIds : ReadyToSendChangesFromComputer(c)
  \/ \E c \in ClientIds : SendChanges(c)
  \/ \E c \in ClientIds : RemapIdentifiers(c)

Spec == Init /\ [][Next]_vars

NextCallback ==
  \/ \E r \in RegIds : IDeviceEventCallbackNew(r)
  \/ IdeviceEventCallback

SpecCallback == Init /\ [][NextCallback]_vars

TypeOK ==
  /\ \A c \in ClientIds : clients[c].st \in {"none", "live", "dropped"}
  /\ allocated \subseteq Ptrs
  /\ alive \in BOOLEAN


\* ------------------------------------------------------------ properties

Owners(p) == {c \in ClientIds : clients[c].st # "none" /\ clients[c].pointer = p}
LiveOwners(p) == {c \in ClientIds : clients[c].st = "live" /\ clients[c].pointer = p}
RecordOps == {"receive_changes", "get_all_records_from_device", "get_changes_from_device"}

\* C1: every session a constructor returned is freed exactly once: never more
\* than once, and once when every value holding it has been dropped.
C1_ExactlyOneTeardown ==
  \A p \in allocated :
    /\ freeCalls[p] <= 1
    /\ (\A c \in Owners(p) : clients[c].st = "dropped") => freeCalls[p] = 1

\* C2: a constructor whose native call returns a non-Success status returns
\* that status translated, creates no client value and frees nothing.
C2_FailedConstruction ==
  [][(/\ ret'.op \in {"new", "start_service"}
      /\ Len(trace') = 1
      /\ MobileSyncErrorFrom(trace'[1].status) # "Success")
     => (/\ ret'.kind = "Err"
         /\ ret'.err = MobileSyncErrorFrom(trace'[1].status)
         /\ clients' = clients
         /\ freeCalls' = freeCalls)]_vars

C2_Witness ==
  /\ ret.op = "start_service"
  /\ Len(trace) = 1
  /\ trace[1].status = -3
  /\ ret.kind = "Err"
  /\ \E c \in ClientIds : clients[c].st = "live"

\* C3: a delivery with valid pointers returns, and has invoked the handler
\* once with the decoded event and the stored data when the registration has
\* no filter or its filter equals the event's udid, and not at all otherwise.
C3_FilterForwarding ==
  (delivery.outcome # "none" /\ ~delivery.eventNull /\ ~delivery.ctxNull)
    => LET callback == registrations[delivery.reg]
           event == [kind |-> CASE delivery.event.event = 1 -> "Add"
                                [] delivery.event.event = 2 -> "Remove"
                                [] OTHER -> "Paired",
                     udid |-> <<delivery.event.udid[1]>>]
       IN /\ delivery.outcome = "returned"
          /\ delivery.handlerLog =
               IF callback.filter = {} \/ callback.filter = {event.udid}
               THEN <<[event |-> event, data |-> callback.data]>>
               ELSE <<>>

C3_Witness ==
  /\ delivery.outcome = "returned"
  /\ ~delivery.eventNull
  /\ ~delivery.ctxNull
  /\ registrations[delivery.reg].filter = {<<2>>}
  /\ delivery.event.udid = <<2, 0>>
  /\ Len(delivery.handlerLog) = 1

\* C4: remap_identifiers on a payload that is not an array returns InvalidArg
\* without a native call; its native call is made only for an array.
C4_RemapRejectsNonArray ==
  ret.op = "remap_identifiers"
    => /\ ret.arg # "Array" => (ret.kind = "Err" /\ ret.err = "InvalidArg" /\ trace = <<>>)
       /\ \A i \in 1..Len(trace) :
            trace[i].fn = "mobilesync_remap_identifiers" => ret.arg = "Array"

C4_Witness ==
  /\ ret.op = "remap_identifiers"
  /\ ret.arg = "Dictionary"
  /\ ret.err = "InvalidArg"
  /\ trace = <<>>

\* C5: a session pointer is held by at most one live client value, and no
\* operation's native call is issued on a session that was already freed.
C5_ExclusiveAndNoUseAfterFree ==
  /\ \A p \in Ptrs : Cardinality(LiveOwners(p)) <= 1
  /\ \A i \in 1..Len(trace) :
       trace[i].fn # "mobilesync_client_free" => ~trace[i].dangling

\* C6: no operation ends in a panic, whatever string it was given.
C6_NeverPanics == ret.kind # "Panic"

\* C7: when mobilesync_start returns a non-Success status, start returns an
\* error carrying a diagnostic string and the translated code.
C7_StartErrorCarriesBoth ==
  (/\ ret.op = "start"
   /\ Len(trace) = 1
   /\ trace[1].returned
   /\ MobileSyncErrorFrom(trace[1].status) # "Success")
    => (ret.kind = "Err" /\ ret.err = MobileSyncErrorFrom(trace[1].status))

\* C8: a delivery with a null event or context pointer dereferences no null
\* pointer and does not invoke the handler.
C8_NullPointersChecked ==
  (delivery.eventNull \/ delivery.ctxNull)
    => (~delivery.derefNull /\ delivery.handlerLog = <<>>)

\* C9: on success the has-more component is false when the native flag is 0
\* and true for every other value of the flag.
C9_HasMoreIsNonzeroTest ==
  (ret.op \in RecordOps /\ ret.kind = "Ok")
    => LET flag == trace[Len(trace)].args
       IN /\ flag = 0 => ret.has_more = FALSE
          /\ flag # 0 => ret.has_more = TRUE

C9_Witness ==
  /\ ret.op = "get_changes_from_device"
  /\ ret.kind = "Ok"
  /\ trace[Len(trace)].args = -1
  /\ ret.has_more = TRUE

\* C10: get_all_records_from_device and get_changes_from_device call their
\* request first; a request that returns an error ends the operation with that
\* error and no receive_changes call; after a successful request exactly one
\* receive_changes call follows and its result is the operation's result.
C10_RequestThenReceive ==
  ret.op \in {"get_all_records_from_device", "get_changes_from_device"}
    => /\ Len(trace) \in {1, 2}
       /\ trace[1].fn = "mobilesync_" \o ret.op
       /\ (trace[1].returned /\ MobileSyncErrorFrom(trace[1].status) # "Success")
            => /\ Len(trace) = 1
               /\ ret.kind = "Err"
               /\ ret.err = MobileSyncErrorFrom(trace[1].status)
       /\ (trace[1].returned /\ MobileSyncErrorFrom(trace[1].status) = "Success")
            => /\ Len(trace) = 2
               /\ trace[2].fn = "mobilesync_receive_changes"
               /\ ret = ReceiveChangesResult(ret.op,
                                             [returned |-> trace[2].returned,
                                              status |-> trace[2].status],
                                             trace[2].args)
       /\ Len(trace) = 2
            => (trace[1].returned /\ MobileSyncErrorFrom(trace[1].status) = "Success")

C10_Witness ==
  /\ ret.op = "get_all_records_from_device"
  /\ Len(trace) = 2
  /\ trace[2].fn = "mobilesync_receive_changes"
  /\ ret.kind = "Ok"

====
